---- MODULE Spec2Model ----
(***************************************************************************)
(* Model of the athena reverse proxy: the proxy_request handler            *)
(* (src/src/proxy_request.rs), the response cache and the Server-header    *)
(* middleware built in main (src/src/main.rs) and the stand-alone target   *)
(* resolver determine_target_url (src/src/router.rs).                      *)
(*                                                                         *)
(* Byte strings are TLA+ strings.  The character OpaqueByte stands for a   *)
(* byte outside visible ASCII (the bytes HeaderValue::to_str refuses).     *)
(* Header maps are sequences of [name, value] records, names lower-case    *)
(* as the http crate keeps them.                                           *)
(***************************************************************************)
EXTENDS Integers, Sequences, FiniteSets, TLC

VARIABLES
    now,       \* the clock, in seconds (what the cache measures time_to_live against)
    cache,     \* AppState.cache: key |-> [value, inserted]
    pc,        \* per slot: "idle", "sending" (in send()), "reading" (in bytes()), "done"
    req,       \* per slot: the inbound request (req, body)
    cachekey,  \* per slot: the local cachekey
    out,       \* per slot: client_req, the outbound request
    sent,      \* per slot: the number of send() calls the invocation has made
    upstream,  \* per slot: res, the backend's status and headers
    resp       \* per slot: the response that left the proxy

vars == <<now, cache, pc, req, cachekey, out, sent, upstream, resp>>

(***************************************************************************)
(* Program constants                                                       *)
(***************************************************************************)
TARGET_BASE_URL == "https://db-suitsbooks-nl.xylex.cloud"
HOST_DEXTER == "db-dexter.xylex.cloud"
TARGET_BASE_URL_DEXTER == "https://athena.dexter.xylex.cloud"

ROUTER_TARGET_BASE_URL == "https://db-suitsbooks-nl.xylex.cloud"
ROUTER_HOST_DEXTER == "db-dexter.xylex.cloud"
ROUTER_TARGET_BASE_URL_DEXTER == "https://athena.dexter.xylex.cloud"

\* Cache::builder().time_to_live(Duration::from_secs(60)), in seconds
TTL == 60

\* the value the middleware writes into the Server header
SERVER_ID == "XYLEX/0"

\* "{addr}" of the bound socket: what ConnectionInfo::host() falls back to
BIND_HOST == "0.0.0.0:4053"

(***************************************************************************)
(* Bounds of the model                                                     *)
(***************************************************************************)
\* number of request slots (concurrently running handler invocations)
NumProcs == 1
\* the clock stops advancing once another step would take it past MaxTime seconds
MaxTime == 61

(***************************************************************************)
(* Option<T> and string helpers (Rust std)                                 *)
(***************************************************************************)
None == [some |-> FALSE, v |-> ""]
Some(x) == [some |-> TRUE, v |-> x]
UnwrapOrDefault(o) == IF o.some THEN o.v ELSE ""

OpaqueByte == "ÿ"

CharAt(s, i) == SubSeq(s, i, i)

\* str::contains(pat)
Contains(s, pat) ==
    \E i \in 1..(Len(s) - Len(pat) + 1) : SubSeq(s, i, i + Len(pat) - 1) = pat

\* str::starts_with(pat)
StartsWith(s, pat) == Len(s) >= Len(pat) /\ SubSeq(s, 1, Len(pat)) = pat

\* str::strip_prefix(pat)
StripPrefix(s, pat) ==
    IF StartsWith(s, pat) THEN Some(SubSeq(s, Len(pat) + 1, Len(s))) ELSE None

\* str::replacen(pat, to, 1): the leftmost occurrence of pat, if any, replaced
Replacen1(s, pat, to) ==
    LET hits == {i \in 1..(Len(s) - Len(pat) + 1) : SubSeq(s, i, i + Len(pat) - 1) = pat}
    IN  IF hits = {} THEN s
        ELSE LET i == CHOOSE j \in hits : \A k \in hits : j <= k
             IN  SubSeq(s, 1, i - 1) \o to \o SubSeq(s, i + Len(pat), Len(s))

\* str::replace(c, to) for a one-character pattern c: every occurrence replaced
RECURSIVE Replace(_, _, _)
Replace(s, c, to) ==
    IF s = "" THEN ""
    ELSE (IF Head(s) = c THEN to ELSE Head(s)) \o Replace(Tail(s), c, to)

(***************************************************************************)
(* Header maps                                                             *)
(***************************************************************************)
Hdr(n, v) == [name |-> n, value |-> v]

\* HeaderMap::get(name): the first value stored under the name
RECURSIVE HeaderGet(_, _)
HeaderGet(hs, n) ==
    IF hs = <<>> THEN None
    ELSE IF Head(hs).name = n THEN Some(Head(hs).value)
    ELSE HeaderGet(Tail(hs), n)

\* HeaderName::from_bytes: a header name is kept in lower case
UpperCase == "ABCDEFGHIJKLMNOPQRSTUVWXYZ"
LowerCase == "abcdefghijklmnopqrstuvwxyz"

LowerChar(c) ==
    IF \E i \in 1..Len(UpperCase) : CharAt(UpperCase, i) = c
    THEN CharAt(LowerCase, CHOOSE i \in 1..Len(UpperCase) : CharAt(UpperCase, i) = c)
    ELSE c

RECURSIVE Lower(_)
Lower(s) == IF s = "" THEN "" ELSE LowerChar(Head(s)) \o Lower(Tail(s))

\* the header map built from the header lines of a message: names in lower case
RECURSIVE HeaderMapOf(_)
HeaderMapOf(lines) ==
    IF lines = <<>> THEN <<>>
    ELSE <<Hdr(Lower(Head(lines).name), Head(lines).value)>> \o HeaderMapOf(Tail(lines))

\* HeaderValue::to_str(): Err unless every byte is visible ASCII
ToStr(v) ==
    IF \E i \in 1..Len(v) : CharAt(v, i) = OpaqueByte THEN None ELSE Some(v)

\* Option::and_then(|value| value.to_str().ok())
GetStr(hs, n) ==
    LET h == HeaderGet(hs, n) IN IF h.some THEN ToStr(h.v) ELSE None

(***************************************************************************)
(* proxy_request: the values computed before the cache is consulted        *)
(***************************************************************************)
\* ConnectionInfo::host(): the Host header when it is a string, otherwise the
\* address the server is bound to
ConnHost(r) ==
    LET h == GetStr(r.headers, "host") IN IF h.some THEN h.v ELSE BIND_HOST

\* req.full_url(): "{scheme}://{host}{path_and_query}"
FullUrl(r) ==
    "http://" \o ConnHost(r) \o r.path
        \o (IF r.query.some THEN "?" \o r.query.v ELSE "")

\* full_url.path()
FullUrlPath(r) == r.path

\* full_url.query().unwrap_or_default()
QueryParams(r) == UnwrapOrDefault(r.query)

\* full_url_path.replacen("/rest/v1", "", 1)
Path(r) == Replacen1(FullUrlPath(r), "/rest/v1", "")

\* the Host header as a string, "" when absent or not a string
Host(r) == UnwrapOrDefault(GetStr(r.headers, "host"))

\* mutant: only the exact dexter host selects the dexter origin
TargetUrlReplExactHost(host, path) ==
    IF host = HOST_DEXTER
    THEN TARGET_BASE_URL_DEXTER \o path
    ELSE TARGET_BASE_URL \o path

\* the if on host.contains(HOST_DEXTER)
TargetUrlRepl(host, path) ==
    IF Contains(host, HOST_DEXTER)
    THEN TARGET_BASE_URL_DEXTER \o path
    ELSE TARGET_BASE_URL \o path

\* router.rs
determine_target_url(host, path) ==
    IF Contains(host, ROUTER_HOST_DEXTER)
    THEN ROUTER_TARGET_BASE_URL_DEXTER \o path
    ELSE ROUTER_TARGET_BASE_URL \o path

\* target_url after the query parameters are injected
TargetUrl(r) ==
    LET target_url_repl == TargetUrlRepl(Host(r), Path(r))
        query_params == QueryParams(r)
    IN  IF query_params # ""
        THEN target_url_repl \o "?" \o query_params
        ELSE target_url_repl

\* the Authorization header with the "Bearer " prefix removed, "" when the
\* header is absent, not a string or does not start with the prefix
JwtToken(r) ==
    LET a == GetStr(r.headers, "authorization")
    IN  IF a.some THEN UnwrapOrDefault(StripPrefix(a.v, "Bearer ")) ELSE ""

\* req.headers().get(header::CACHE_CONTROL).cloned()
CacheControlHeader(r) == HeaderGet(r.headers, "cache-control")

\* format!("{}-{}-{}", method, full_url, jwt_token) and the four replacements
DeriveKey(method, full_url, jwt_token) ==
    Replace(
        Replace(
            Replace(
                Replace(method \o "-" \o full_url \o "-" \o jwt_token, "*", "_xXx_"),
                " ", "_"),
            ":", "-"),
        "/", "_")

\* mutant: the request body is part of the key
CacheKeyWithBody(r) == DeriveKey(r.method, FullUrl(r), JwtToken(r) \o "-" \o r.body)

CacheKey(r) == DeriveKey(r.method, FullUrl(r), JwtToken(r))

\* mutant: every Cache-Control header bypasses the cache read
MayReadCacheOnlyWithoutHeader(cc) == ~cc.some

\* cache_control_header.as_ref().map_or(true, |h| h != "no-cache")
MayReadCache(cc) == IF cc.some THEN cc.v # "no-cache" ELSE TRUE

\* mutant: the PATCH arm is missing
ReqwestMethodNoPatch(m) ==
    CASE m = "GET" -> "GET"
      [] m = "POST" -> "POST"
      [] m = "PUT" -> "PUT"
      [] m = "DELETE" -> "DELETE"
      [] OTHER -> "GET"

\* the match on *req.method()
ReqwestMethod(m) ==
    CASE m = "GET" -> "GET"
      [] m = "POST" -> "POST"
      [] m = "PUT" -> "PUT"
      [] m = "DELETE" -> "DELETE"
      [] m = "PATCH" -> "PATCH"
      [] OTHER -> "GET"

\* mutant: the Authorization header is not copied either
CopyHeadersWithoutAuthorization(hs) ==
    SelectSeq(hs, LAMBDA h : h.name # "host" /\ h.name # "authorization")

\* the loop over req.headers(): every header but Host, in order
RECURSIVE CopyHeaders(_)
CopyHeaders(hs) ==
    IF hs = <<>> THEN <<>>
    ELSE (IF Head(hs).name # "host" THEN <<Head(hs)>> ELSE <<>>)
            \o CopyHeaders(Tail(hs))

\* the outbound request handed to send()
ClientReq(r, body) ==
    LET jwt_token == JwtToken(r)
    IN  [method  |-> ReqwestMethod(r.method),
         url     |-> TargetUrl(r),
         headers |-> CopyHeaders(r.headers)
                        \o (IF jwt_token # "" THEN <<Hdr("apikey", jwt_token)>> ELSE <<>>),
         body    |-> body]

(***************************************************************************)
(* The cache store: moka::future::Cache<String, Value> with time_to_live   *)
(***************************************************************************)
\* mutant: an entry lives two seconds longer
IsExpiredLate(e, t) == e.inserted + TTL + 2 <= t

\* an entry is expired once inserted + time_to_live <= now
IsExpired(e, t) == e.inserted + TTL <= t

\* cache.get(&key): the value of a stored entry that has not expired
CacheGet(c, k, t) ==
    IF k \in DOMAIN c /\ ~IsExpired(c[k], t) THEN Some(c[k].value) ELSE None

\* mutant: an entry already stored is kept
CacheInsertIfAbsent(c, k, v, t) ==
    [x \in DOMAIN c \cup {k} |->
        IF x \in DOMAIN c THEN c[x] ELSE [value |-> v, inserted |-> t]]

\* mutant: an entry already stored keeps its time of insertion
CacheInsertKeepStamp(c, k, v, t) ==
    [x \in DOMAIN c \cup {k} |->
        IF x = k
        THEN [value |-> v, inserted |-> IF k \in DOMAIN c THEN c[k].inserted ELSE t]
        ELSE c[x]]

\* cache.insert(key, value): the entry is (re)written, stamped with the clock
CacheInsert(c, k, v, t) ==
    [x \in DOMAIN c \cup {k} |->
        IF x = k THEN [value |-> v, inserted |-> t] ELSE c[x]]

(***************************************************************************)
(* serde_json: a Value is represented by its compact serialisation         *)
(***************************************************************************)
JsonNull == "null"

\* the compact documents the modelled backend can send
JsonDocs == {"{\"a\":1}", "[1,2]", "null", "7"}

\* insignificant whitespace removed (no modelled document has a space inside
\* a string or a number)
StripWs(b) == Replace(b, " ", "")

\* serde_json::from_slice(&body_bytes)
FromSlice(b) == IF StripWs(b) \in JsonDocs THEN Some(StripWs(b)) ELSE None

\* mutant: bytes that do not parse are kept as they are
JsonBodyKeepRaw(b) == LET parsed == FromSlice(b) IN IF parsed.some THEN parsed.v ELSE b

\* serde_json::from_slice(&body_bytes).unwrap_or(Value::Null)
JsonBody(b) == LET parsed == FromSlice(b) IN IF parsed.some THEN parsed.v ELSE JsonNull

(***************************************************************************)
(* Responses                                                               *)
(***************************************************************************)
\* the four header names the Ok arm does not relay
SkippedHeaders ==
    {"content-encoding", "content-length", "transfer-encoding", "connection"}

\* mutant: Connection is relayed
RelayHeadersKeepConnection(hs) ==
    LET kept == SelectSeq(hs, LAMBDA h : h.name \notin (SkippedHeaders \ {"connection"}))
    IN  [i \in 1..Len(kept) |->
            IF kept[i].name = "content-type"
            THEN Hdr(kept[i].name, "application/json")
            ELSE kept[i]]

\* the loop over the upstream headers
RECURSIVE RelayHeaders(_)
RelayHeaders(hs) ==
    IF hs = <<>> THEN <<>>
    ELSE LET h == Head(hs)
         IN  (IF h.name \in SkippedHeaders THEN <<>>
              ELSE IF h.name = "content-type"
                   THEN <<Hdr(h.name, "application/json")>>
                   ELSE <<h>>)
             \o RelayHeaders(Tail(hs))

\* mutant: the cached value is returned as 202 Accepted
HitResponseAccepted(v) ==
    [status |-> 202, headers |-> <<Hdr("content-type", "application/json")>>, body |-> v]

\* HttpResponse::Ok().json(cached_response)
HitResponse(v) ==
    [status |-> 200, headers |-> <<Hdr("content-type", "application/json")>>, body |-> v]

\* mutant: Content-Type is relayed with the backend's value
ForwardResponseKeepType(status, hs, body_bytes) ==
    [status |-> status,
     headers |-> SelectSeq(hs, LAMBDA h : h.name \notin SkippedHeaders),
     body |-> body_bytes]

\* HttpResponse::build(status_code) ... response.body(body_bytes)
ForwardResponse(status, hs, body_bytes) ==
    [status |-> status, headers |-> RelayHeaders(hs), body |-> body_bytes]

\* HttpResponse::InternalServerError().finish()
ErrorResponse == [status |-> 500, headers |-> <<>>, body |-> ""]

\* ping: HttpResponse::Ok().json(json!({"message": "pong"}))
PingResponse ==
    [status |-> 200, headers |-> <<Hdr("content-type", "application/json")>>,
     body |-> "{\"message\":\"pong\"}"]

\* HeaderMap::insert(name, value): every value under the name is replaced by one
RECURSIVE HeaderRemove(_, _)
HeaderRemove(hs, n) ==
    IF hs = <<>> THEN <<>>
    ELSE (IF Head(hs).name = n THEN <<>> ELSE <<Head(hs)>>) \o HeaderRemove(Tail(hs), n)

\* mutant: the value is appended to those already there
HeaderAppend(hs, n, v) == hs \o <<Hdr(n, v)>>

HeaderInsert(hs, n, v) == HeaderRemove(hs, n) \o <<Hdr(n, v)>>

\* the wrap_fn middleware of main: the Server header is set on the way out
WrapFn(res) == [res EXCEPT !.headers = HeaderInsert(@, "server", SERVER_ID)]

\* what the Cors middleware adds to Vary
CORS_VARY == "Origin, Access-Control-Request-Method, Access-Control-Request-Headers"

\* the Cors middleware of main (any origin, any method, any header), on the
\* way out of a request it let through: the request's Origin is allowed, and
\* Vary is set, a value already there being extended
WrapCors(r, res) ==
    LET origin == HeaderGet(r.headers, "origin")
        allowed == IF origin.some
                   THEN HeaderInsert(res.headers, "access-control-allow-origin", origin.v)
                   ELSE res.headers
        vary == HeaderGet(allowed, "vary")
    IN  [res EXCEPT !.headers =
            HeaderInsert(allowed, "vary",
                         IF vary.some THEN vary.v \o ", " \o CORS_VARY ELSE CORS_VARY)]

\* App::new().wrap(cors).wrap_fn(..): the middleware registered last runs last
\* on the way out
Middleware(r, res) == WrapFn(WrapCors(r, res))

(***************************************************************************)
(* Inputs: the inbound requests and the backend's answers                  *)
(***************************************************************************)
\* an inbound request: its header map holds Host, Authorization and
\* Cache-Control when present, then the other headers
Request(method, host, path, query, auth, cc, others, body) ==
    [method  |-> method,
     path    |-> path,
     query   |-> query,
     headers |-> (IF host.some THEN <<Hdr("host", host.v)>> ELSE <<>>)
                 \o (IF auth.some THEN <<Hdr("authorization", auth.v)>> ELSE <<>>)
                 \o (IF cc.some THEN <<Hdr("cache-control", cc.v)>> ELSE <<>>)
                 \o others,
     body    |-> body]

\* the requests of the pipeline specification: one URL, asked for with a
\* bearer credential (Cache-Control absent or no-cache) and without any
\* credential (Cache-Control: no-store)
Requests ==
    { Request("GET", Some("api.xylex.cloud"), "/rest/v1/books", Some("select=*"),
              Some("Bearer abc"), cc, <<>>, "") :
        cc \in {None, Some("no-cache")} }
    \cup
    { Request("GET", Some("api.xylex.cloud"), "/rest/v1/books", Some("select=*"),
              None, Some("no-store"), <<>>, "") }

\* requests whose (method, URL, credential) triples differ in one character
KeyRequests ==
    { Request(method, Some("api.xylex.cloud"), path, query, auth, None, <<>>, "") :
        method \in {"GET", "POST"},
        path \in {"/rest/v1/a/b", "/rest/v1/a_b", "/rest/v1/a"},
        query \in {None, Some("select=*"), Some("select=_xXx_")},
        auth \in {None, Some("Bearer a:b"), Some("Bearer a-b"), Some("Bearer b")} }

\* requests that exercise the URL translation: hosts, paths and queries
UrlRequests ==
    { Request("GET", host, path, query, Some("Bearer abc"), None, <<>>, "") :
        host \in {None, Some("api.xylex.cloud"), Some("db-dexter.xylex.cloud"),
                  Some("eu.db-dexter.xylex.cloud:443"), Some("db-dexter.xylex.clou"),
                  Some("db-dexter.xylex.cloud" \o OpaqueByte)},
        path \in {"/rest/v1/books", "/rest/v1/rest/v1/items", "/api/rest/v1/items",
                  "/books", "/rest/v1", "/rest/v", "/rest/v1/"},
        query \in {None, Some(""), Some("limit=10")} }

\* requests that exercise the header translation: methods, credentials,
\* cache directives, further headers and bodies
HeaderRequests ==
    { Request(method, Some("api.xylex.cloud"), "/rest/v1/books", Some("limit=10"),
              auth, cc, others, body) :
        method \in {"GET", "POST", "OPTIONS"},
        auth \in {None, Some("Bearer abc"), Some("Bearer "), Some("Basic abc"),
                  Some("bearer abc"), Some("Bearer a" \o OpaqueByte)},
        cc \in {None, Some("max-age=0")},
        others \in {<<>>, <<Hdr("apikey", "k"), Hdr("x-client", "cli")>>},
        body \in {"", "{\"n\":1}"} }

\* requests that exercise the method mapping: the five mapped methods, other
\* standard ones and an extension method, with and without a body
MethodRequests ==
    { Request(method, Some("api.xylex.cloud"), "/rest/v1/books", None,
              Some("Bearer abc"), None, <<>>, body) :
        method \in {"GET", "POST", "PUT", "DELETE", "PATCH",
                    "HEAD", "OPTIONS", "TRACE", "PURGE"},
        body \in {"", "{\"n\":1}", "{\"n\":2}"} }

WideRequests == UrlRequests \cup HeaderRequests \cup MethodRequests

\* the requests of the relay specification: those of the pipeline and one
\* sent by a browser from another origin
RelayRequests ==
    Requests \cup
    { Request("GET", Some("api.xylex.cloud"), "/rest/v1/books", Some("select=*"),
              Some("Bearer abc"), None, <<Hdr("origin", "https://app.xylex.cloud")>>, "") }

\* the request of the concurrency specification: every slot asks for the same
\* URL with the same credential, so all share one key
ConcRequests ==
    { Request("GET", Some("api.xylex.cloud"), "/rest/v1/books", Some("select=*"),
              Some("Bearer abc"), None, <<>>, "") }

\* the state-changing requests among them, two bodies each
StateChangingRequests ==
    { r \in MethodRequests :
        r.method \in {"POST", "PUT", "PATCH", "DELETE"} /\ r.body # "" }

\* the requests of the isolation specification: one URL, asked for without
\* credential, by two users with a Basic credential and by two with a
\* Bearer credential
IsolationRequests ==
    { Request("GET", Some("api.xylex.cloud"), "/rest/v1/books", Some("select=*"),
              auth, None, <<>>, "") :
        auth \in {None, Some("Basic abc"), Some("Basic xyz"),
                  Some("Bearer abc"), Some("Bearer xyz")} }

\* the request the ping service answers: GET /
PingRequest == Request("GET", Some("api.xylex.cloud"), "/", None, None, None, <<>>, "")

AllRequests ==
    Requests \cup KeyRequests \cup WideRequests \cup RelayRequests \cup IsolationRequests

UpStatuses == {200, 404, 500}
UpHeaders == { <<Hdr("content-type", "text/plain"), Hdr("content-length", "9")>> }
UpBodies == {"{ \"a\": 1 }", "oops"}

\* the backend's answers of the relay specification: header lines as sent
\* (names in any letter case, the unrelayed ones at the front, in the middle,
\* at the end and repeated; a Server header; repeated headers), statuses and
\* bodies (compact JSON, JSON with whitespace, not JSON)
UpHeaderLines ==
    { <<>>,
      <<Hdr("Content-Type", "text/plain"), Hdr("Content-Length", "9")>>,
      <<Hdr("CONTENT-ENCODING", "gzip"), Hdr("X-Request-Id", "r1"),
        Hdr("content-encoding", "br"), Hdr("content-TYPE", "text/html")>>,
      <<Hdr("Server", "nginx"), Hdr("Transfer-Encoding", "chunked"),
        Hdr("ETag", "x1"), Hdr("Connection", "keep-alive")>>,
      <<Hdr("Set-Cookie", "a=1"), Hdr("connection", "close"),
        Hdr("Set-Cookie", "b=2"), Hdr("Content-Type", "application/json")>>,
      <<Hdr("server", "a"), Hdr("SERVER", "b"), Hdr("Vary", "Accept"),
        Hdr("Access-Control-Allow-Origin", "*")>> }
\* res.headers() for each of them
UpHeaderMaps == [lines \in UpHeaderLines |-> HeaderMapOf(lines)]
RelayStatuses == {200, 404}
RelayBodies == {"[1,2]", "{ \"a\": 1 }", "oops"}

\* the clock advances in steps of these many seconds: two steps make an entry
\* 58 to 62 seconds old, around the time_to_live
TickSteps == {29, 30, 31}

NoReq == [method |-> "", path |-> "", query |-> None, headers |-> <<>>, body |-> ""]
NoOut == [method |-> "", url |-> "", headers |-> <<>>, body |-> ""]
NoUp == [status |-> 0, headers |-> <<>>]
NoResp == [status |-> 0, headers |-> <<>>, body |-> ""]

(***************************************************************************)
(* The state machine                                                       *)
(***************************************************************************)
Procs == 1..NumProcs

\* what proxy_request derives from a request, computed once per request
Derive(r) ==
    [cachekey   |-> CacheKey(r),
     may_read   |-> MayReadCache(CacheControlHeader(r)),
     client_req |-> ClientReq(r, r.body)]

Derived == [r \in AllRequests |-> Derive(r)]

InitOn(procs) ==
    /\ now = 0
    /\ cache = [k \in {} |-> [value |-> JsonNull, inserted |-> 0]]
    /\ pc = [p \in procs |-> "idle"]
    /\ req = [p \in procs |-> NoReq]
    /\ cachekey = [p \in procs |-> ""]
    /\ out = [p \in procs |-> NoOut]
    /\ sent = [p \in procs |-> 0]
    /\ upstream = [p \in procs |-> NoUp]
    /\ resp = [p \in procs |-> NoResp]

Init == InitOn(Procs)

\* proxy_request up to send(): the cache is consulted unless the request says
\* no-cache; a hit answers at once, otherwise the outbound request is built
\* and sent
Start(p, r) ==
    /\ pc[p] \in {"idle", "done"}
    /\ LET key == Derived[r].cachekey
           cached == IF Derived[r].may_read
                     THEN CacheGet(cache, key, now)
                     ELSE None
       IN  /\ req' = [req EXCEPT ![p] = r]
           /\ cachekey' = [cachekey EXCEPT ![p] = key]
           /\ upstream' = [upstream EXCEPT ![p] = NoUp]
           /\ IF cached.some
              THEN /\ pc' = [pc EXCEPT ![p] = "done"]
                   /\ resp' = [resp EXCEPT ![p] = Middleware(r, HitResponse(cached.v))]
                   /\ out' = [out EXCEPT ![p] = NoOut]
                   /\ sent' = [sent EXCEPT ![p] = 0]
              ELSE /\ pc' = [pc EXCEPT ![p] = "sending"]
                   /\ resp' = [resp EXCEPT ![p] = NoResp]
                   /\ out' = [out EXCEPT ![p] = Derived[r].client_req]
                   /\ sent' = [sent EXCEPT ![p] = 1]
    /\ UNCHANGED <<now, cache>>

\* send() returns Ok(res): status and headers are in
SendOk(p, status, hs) ==
    /\ pc[p] = "sending"
    /\ upstream' = [upstream EXCEPT ![p] = [status |-> status, headers |-> hs]]
    /\ pc' = [pc EXCEPT ![p] = "reading"]
    /\ UNCHANGED <<now, cache, req, cachekey, out, sent, resp>>

\* mutant: a failed send() is tried again
SendErrRetry(p) ==
    /\ pc[p] = "sending"
    /\ sent' = [sent EXCEPT ![p] = @ + 1]
    /\ UNCHANGED <<now, cache, pc, req, cachekey, out, upstream, resp>>

\* send() returns Err(e)
SendErr(p) ==
    /\ pc[p] = "sending"
    /\ resp' = [resp EXCEPT ![p] = Middleware(req[p], ErrorResponse)]
    /\ pc' = [pc EXCEPT ![p] = "done"]
    /\ UNCHANGED <<now, cache, req, cachekey, out, sent, upstream>>

\* mutant: only a 2xx answer is stored
CompleteWhenSuccess(p, body_bytes) ==
    /\ cache' = IF upstream[p].status < 300
                THEN CacheInsert(cache, cachekey[p], JsonBody(body_bytes), now)
                ELSE cache
    /\ resp' = [resp EXCEPT ![p] =
                    Middleware(req[p],
                               ForwardResponse(upstream[p].status, upstream[p].headers,
                                               body_bytes))]
    /\ pc' = [pc EXCEPT ![p] = "done"]
    /\ UNCHANGED <<now, req, cachekey, out, sent, upstream>>

\* the Ok arm once body_bytes is known: parse, insert, build the response
Complete(p, body_bytes) ==
    /\ cache' = CacheInsert(cache, cachekey[p], JsonBody(body_bytes), now)
    /\ resp' = [resp EXCEPT ![p] =
                    Middleware(req[p],
                               ForwardResponse(upstream[p].status, upstream[p].headers,
                                               body_bytes))]
    /\ pc' = [pc EXCEPT ![p] = "done"]
    /\ UNCHANGED <<now, req, cachekey, out, sent, upstream>>

\* res.bytes().await yields the body
ReadBody(p, bytes) ==
    /\ pc[p] = "reading"
    /\ Complete(p, bytes)

\* res.bytes().await fails: unwrap_or_default() turns it into no bytes
ReadBodyErr(p) ==
    /\ pc[p] = "reading"
    /\ Complete(p, "")

\* time passes
Tick(d) ==
    /\ now + d <= MaxTime
    /\ now' = now + d
    /\ UNCHANGED <<cache, pc, req, cachekey, out, sent, upstream, resp>>

Next ==
    \/ \E p \in DOMAIN pc, r \in Requests : Start(p, r)
    \/ \E p \in DOMAIN pc, status \in UpStatuses, hs \in UpHeaders : SendOk(p, status, hs)
    \/ \E p \in DOMAIN pc : SendErr(p)
    \/ \E p \in DOMAIN pc, bytes \in UpBodies : ReadBody(p, bytes)
    \/ \E p \in DOMAIN pc : ReadBodyErr(p)
    \/ \E d \in TickSteps : Tick(d)

Spec == Init /\ [][Next]_vars

(***************************************************************************)
(* Specifications of the translation alone: every slot runs the handler    *)
(* once, up to send(), on a request drawn from a wider set                 *)
(***************************************************************************)
StartOnce(p, r) ==
    /\ pc[p] = "idle"
    /\ Start(p, r)

\* two slots, so that the keys of two requests can be compared
KeyNext == \E p \in DOMAIN pc, r \in KeyRequests : StartOnce(p, r)

KeySpec == InitOn({1, 2}) /\ [][KeyNext]_vars

TranslateNext == \E p \in DOMAIN pc, r \in WideRequests : StartOnce(p, r)

TranslateSpec == InitOn({1}) /\ [][TranslateNext]_vars

(***************************************************************************)
(* Specification of the responses: one slot, the backend answering with    *)
(* the wider header lines, statuses and bodies, and the ping service       *)
(***************************************************************************)
\* the ping service behind the middleware
Ping(p) ==
    /\ pc[p] \in {"idle", "done"}
    /\ req' = [req EXCEPT ![p] = PingRequest]
    /\ cachekey' = [cachekey EXCEPT ![p] = ""]
    /\ upstream' = [upstream EXCEPT ![p] = NoUp]
    /\ out' = [out EXCEPT ![p] = NoOut]
    /\ sent' = [sent EXCEPT ![p] = 0]
    /\ resp' = [resp EXCEPT ![p] = Middleware(PingRequest, PingResponse)]
    /\ pc' = [pc EXCEPT ![p] = "done"]
    /\ UNCHANGED <<now, cache>>

RelayNext ==
    \/ \E p \in DOMAIN pc, r \in RelayRequests : Start(p, r)
    \/ \E p \in DOMAIN pc, status \in RelayStatuses, lines \in UpHeaderLines :
          SendOk(p, status, UpHeaderMaps[lines])
    \/ \E p \in DOMAIN pc : SendErr(p)
    \/ \E p \in DOMAIN pc, bytes \in RelayBodies : ReadBody(p, bytes)
    \/ \E p \in DOMAIN pc : ReadBodyErr(p)
    \/ \E p \in DOMAIN pc : Ping(p)

RelaySpec == InitOn({1}) /\ [][RelayNext]_vars

(***************************************************************************)
(* Specification of concurrent invocations: one slot more than the         *)
(* pipeline specification has, all asking for the same key                 *)
(***************************************************************************)
ConcProcs == 1..(NumProcs + 1)

ConcNext ==
    \/ \E p \in DOMAIN pc, r \in ConcRequests : Start(p, r)
    \/ \E p \in DOMAIN pc, hs \in UpHeaders : SendOk(p, 200, hs)
    \/ \E p \in DOMAIN pc : SendErr(p)
    \/ \E p \in DOMAIN pc, bytes \in UpBodies : ReadBody(p, bytes)
    \/ \E p \in DOMAIN pc : ReadBodyErr(p)
    \/ \E d \in TickSteps : Tick(d)

ConcSpec == InitOn(ConcProcs) /\ [][ConcNext]_vars

\* send() comes back, with an answer or an error
SendReturns(p) == (\E hs \in UpHeaders : SendOk(p, 200, hs)) \/ SendErr(p)

\* bytes() comes back, with the body or an error
BytesReturns(p) == (\E bytes \in UpBodies : ReadBody(p, bytes)) \/ ReadBodyErr(p)

\* the same, with the outbound call of every invocation coming back in the end
LiveSpec ==
    /\ ConcSpec
    /\ \A p \in ConcProcs : WF_vars(SendReturns(p)) /\ WF_vars(BytesReturns(p))

(***************************************************************************)
(* Specification of replayed answers: two slots asking for the same key,   *)
(* so that the response of the request that stored an entry and the        *)
(* response of a request served from it are there together                 *)
(***************************************************************************)
ReplayNext ==
    \/ \E p \in DOMAIN pc, r \in ConcRequests : Start(p, r)
    \/ \E p \in DOMAIN pc, status \in RelayStatuses, hs \in UpHeaders :
          SendOk(p, status, hs)
    \/ \E p \in DOMAIN pc : SendErr(p)
    \/ \E p \in DOMAIN pc, bytes \in RelayBodies : ReadBody(p, bytes)
    \/ \E p \in DOMAIN pc : ReadBodyErr(p)

ReplaySpec == InitOn({1, 2}) /\ [][ReplayNext]_vars

(***************************************************************************)
(* Specification of repeated state-changing requests: two slots, so that   *)
(* a request and its repetition with another body are there together; the  *)
(* clock advances by half the time_to_live                                 *)
(***************************************************************************)
RepeatNext ==
    \/ \E p \in DOMAIN pc, r \in StateChangingRequests : Start(p, r)
    \/ \E p \in DOMAIN pc, hs \in UpHeaders : SendOk(p, 200, hs)
    \/ \E p \in DOMAIN pc : ReadBody(p, "{ \"a\": 1 }")
    \/ Tick(TTL \div 2)

RepeatSpec == InitOn({1, 2}) /\ [][RepeatNext]_vars

(***************************************************************************)
(* Specification of requests with different credentials: two slots asking  *)
(* for the same URL                                                        *)
(***************************************************************************)
IsolationNext ==
    \/ \E p \in DOMAIN pc, r \in IsolationRequests : Start(p, r)
    \/ \E p \in DOMAIN pc, hs \in UpHeaders : SendOk(p, 200, hs)
    \/ \E p \in DOMAIN pc, bytes \in UpBodies : ReadBody(p, bytes)

IsolationSpec == InitOn({1, 2}) /\ [][IsolationNext]_vars

(***************************************************************************)
(* Properties                                                              *)
(***************************************************************************)
\* the step is slot p taking up the request req'[p]
Starts(p) ==
    /\ pc[p] \in {"idle", "done"}
    /\ now' = now
    /\ req'[p] \in Requests
    /\ Start(p, req'[p])

\* the request carries the header Cache-Control: no-cache, byte for byte
SaysNoCache(r) ==
    \E i \in 1..Len(r.headers) : r.headers[i] = Hdr("cache-control", "no-cache")

\* an entry is stored under k and is less than 60 seconds old
LiveEntry(k) == k \in DOMAIN cache /\ now - cache[k].inserted < 60

\* slot p has just answered from the cache: no outbound call, 200, the stored value
AnsweredFromCache(p, k) ==
    /\ pc'[p] = "done"
    /\ sent'[p] = 0
    /\ out'[p] = NoOut
    /\ resp'[p].status = 200
    /\ resp'[p].body = cache[k].value
    /\ cache' = cache

\* slot p has just made its one outbound call and waits for the backend
Dispatched(p) ==
    /\ pc'[p] = "sending"
    /\ sent'[p] = 1
    /\ out'[p] # NoOut
    /\ cache' = cache

\* C1: a request is answered from the cache, with no outbound call, exactly
\* when a live entry is stored under its key and its Cache-Control header is
\* absent or differs from the literal no-cache; so a request that finds the
\* entry stored for its triple less than 60 seconds ago, and does not say
\* no-cache, makes no outbound call.
C1_HitDecision ==
    [][\A p \in DOMAIN pc :
          Starts(p) =>
            LET k == cachekey'[p]
                r == req'[p]
            IN  /\ AnsweredFromCache(p, k) <=> (LiveEntry(k) /\ ~SaysNoCache(r))
                /\ ~AnsweredFromCache(p, k) => Dispatched(p)
                /\ (LiveEntry(k) /\ ~SaysNoCache(r)) => sent'[p] = 0]_vars

\* C1 witness: a request with Cache-Control: no-store was answered from a
\* live entry without an outbound call
C1_Witness ==
    \E p \in DOMAIN pc :
        /\ pc[p] = "done"
        /\ sent[p] = 0
        /\ \E i \in 1..Len(req[p].headers) :
               req[p].headers[i] = Hdr("cache-control", "no-store")
        /\ cachekey[p] \in DOMAIN cache
        /\ now - cache[cachekey[p]].inserted < 60
        /\ resp[p].status = 200
        /\ resp[p].body = cache[cachekey[p]].value

\* what the cache is to hold for a body the backend sent
StoredFor(b) ==
    IF b = "{ \"a\": 1 }" THEN "{\"a\":1}"
    ELSE IF b = "[1,2]" THEN "[1,2]"
    ELSE "null"

\* the step is slot p storing the answer whose body is b
Stores(p, b) == pc[p] = "reading" /\ pc'[p] = "done" /\ ReadBody(p, b)

\* C2: a request carrying Cache-Control: no-cache makes a fresh outbound call
\* even when a live entry is stored under its key; when the backend answers,
\* the parsed answer replaces the entry under that key, and a following
\* request without the directive is served the value then stored.
C2_Bypass ==
    [][\A p \in DOMAIN pc :
          /\ Starts(p) =>
                /\ SaysNoCache(req'[p]) => Dispatched(p)
                /\ (~SaysNoCache(req'[p]) /\ LiveEntry(cachekey'[p])) =>
                      /\ sent'[p] = 0
                      /\ resp'[p].body = cache[cachekey'[p]].value
          /\ \A b \in UpBodies :
                (Stores(p, b) /\ SaysNoCache(req[p])) =>
                    /\ DOMAIN cache' = DOMAIN cache \cup {cachekey[p]}
                    /\ cache'[cachekey[p]] = [value |-> StoredFor(b), inserted |-> now]
                    /\ \A k \in DOMAIN cache \ {cachekey[p]} : cache'[k] = cache[k]]_vars

\* C2 witness: a no-cache request has been sent to the backend, and has its
\* answer's headers, while a live entry with another value than the coming
\* one is stored under its key
C2_Witness ==
    \E p \in DOMAIN pc :
        /\ pc[p] = "reading"
        /\ sent[p] = 1
        /\ \E i \in 1..Len(req[p].headers) :
               req[p].headers[i] = Hdr("cache-control", "no-cache")
        /\ cachekey[p] \in DOMAIN cache
        /\ now - cache[cachekey[p]].inserted < 60
        /\ cache[cachekey[p]].value = "null"

\* C3: the cache never serves an entry older than 60 seconds, counted from
\* its latest insertion; an entry is a hit when 59 seconds old and a miss
\* when 61 seconds old, the miss of an expired entry being an ordinary
\* dispatch; and serving an entry leaves its insertion time as it was.
C3_Ttl ==
    [][\A p \in DOMAIN pc :
          /\ Starts(p) =>
               LET k == cachekey'[p]
                   r == req'[p]
               IN  /\ sent'[p] = 0 =>
                         (k \in DOMAIN cache /\ now - cache[k].inserted <= 60)
                   /\ (k \in DOMAIN cache /\ now - cache[k].inserted <= 59
                         /\ ~SaysNoCache(r)) => AnsweredFromCache(p, k)
                   /\ (k \in DOMAIN cache /\ now - cache[k].inserted >= 61) =>
                         (Dispatched(p) /\ resp'[p] = NoResp)
                   /\ cache' = cache
          /\ (pc[p] = "reading" /\ pc'[p] = "done") =>
               /\ cachekey[p] \in DOMAIN cache'
               /\ cache'[cachekey[p]].inserted = now]_vars

\* C3 witness: an entry was served when exactly 59 seconds old
C3_Witness ==
    \E p \in DOMAIN pc :
        /\ pc[p] = "done"
        /\ sent[p] = 0
        /\ resp[p].status = 200
        /\ cachekey[p] \in DOMAIN cache
        /\ now - cache[cachekey[p]].inserted = 59

\* C5: a failure of the outbound call, while sending or while reading the
\* response body, gives the client a 500 with an empty body, is not retried
\* and leaves the cache as it was.
C5_DispatchFailure ==
    [][\A p \in DOMAIN pc :
          ((pc[p] = "sending" /\ SendErr(p)) \/ (pc[p] = "reading" /\ ReadBodyErr(p))) =>
              /\ pc'[p] = "done"
              /\ resp'[p].status = 500
              /\ resp'[p].body = ""
              /\ sent'[p] = sent[p]
              /\ cache' = cache]_vars

\* the body is one the backend sent that is not JSON
NotJson(b) == b \in UpBodies /\ b # "{ \"a\": 1 }"

\* slot p has forwarded an answer that was not JSON, and takes up the same
\* request again while the null stored for it is live
RepeatsAfterDecodeError(p) ==
    /\ pc[p] = "done"
    /\ sent[p] = 1
    /\ NotJson(resp[p].body)
    /\ Starts(p)
    /\ req'[p] = req[p]
    /\ LiveEntry(cachekey[p])
    /\ cache[cachekey[p]].value = "null"

\* a body that is not JSON is forwarded as it came, with the backend's
\* status, and null is stored under the request's key
DecodeErrorStored(p) ==
    \A b \in UpBodies :
        (NotJson(b) /\ Stores(p, b)) =>
            /\ pc'[p] = "done"
            /\ resp'[p].status = upstream[p].status
            /\ resp'[p].body = b
            /\ cachekey[p] \in DOMAIN cache'
            /\ cache'[cachekey[p]] = [value |-> "null", inserted |-> now]

\* C6 (as claimed): a body that is not JSON does not fail the request: the
\* client receives the raw bytes with the backend's status, null is stored
\* under the key, and every identical request within the TTL is served null.
C6_DecodeAsClaimed ==
    [][\A p \in DOMAIN pc :
          /\ DecodeErrorStored(p)
          /\ RepeatsAfterDecodeError(p) =>
                (AnsweredFromCache(p, cachekey[p]) /\ resp'[p].body = "null")]_vars

\* C6 (amended): as claimed, for identical requests that do not carry
\* Cache-Control: no-cache; one that does is sent to the backend again.
C6_Decode ==
    [][\A p \in DOMAIN pc :
          /\ DecodeErrorStored(p)
          /\ (RepeatsAfterDecodeError(p) /\ ~SaysNoCache(req[p])) =>
                (AnsweredFromCache(p, cachekey[p]) /\ resp'[p].body = "null")
          /\ (RepeatsAfterDecodeError(p) /\ SaysNoCache(req[p])) => Dispatched(p)]_vars

\* C6 witness: an answer that was not JSON has been forwarded as it came, and
\* null is stored under the key of the request, which does not say no-cache
C6_Witness ==
    \E p \in DOMAIN pc :
        /\ pc[p] = "done"
        /\ sent[p] = 1
        /\ ~SaysNoCache(req[p])
        /\ resp[p].status = 200
        /\ resp[p].body = "oops"
        /\ cachekey[p] \in DOMAIN cache
        /\ cache[cachekey[p]] = [value |-> "null", inserted |-> now]

\* C7: whatever the backend's status, the answer is forwarded with that
\* status and its parsed body is stored under the request's key.
C7_AnyStatus ==
    [][\A p \in DOMAIN pc : \A b \in UpBodies :
          Stores(p, b) =>
              /\ upstream[p].status \in {200, 404, 500}
              /\ pc'[p] = "done"
              /\ resp'[p].status = upstream[p].status
              /\ resp'[p].body = b
              /\ cachekey[p] \in DOMAIN cache'
              /\ cache'[cachekey[p]] = [value |-> StoredFor(b), inserted |-> now]]_vars

\* C7 witness: a 404 answer with a JSON body was forwarded as 404 and its
\* parsed body stored
C7_Witness ==
    \E p \in DOMAIN pc :
        /\ pc[p] = "done"
        /\ sent[p] = 1
        /\ upstream[p].status = 404
        /\ resp[p].status = 404
        /\ resp[p].body = "{ \"a\": 1 }"
        /\ cachekey[p] \in DOMAIN cache
        /\ cache[cachekey[p]] = [value |-> "{\"a\":1}", inserted |-> now]

\* the triple the key is derived from
Triple(r) == <<r.method, FullUrl(r), JwtToken(r)>>

\* C4: the key derivation is deterministic, and two requests whose (method,
\* URL, credential) triples differ have different keys.
C4_KeyInjective ==
    \A p, q \in DOMAIN pc :
        (pc[p] # "idle" /\ pc[q] # "idle") =>
            /\ Triple(req[p]) = Triple(req[q]) => cachekey[p] = cachekey[q]
            /\ Triple(req[p]) # Triple(req[q]) => cachekey[p] # cachekey[q]

\* the value of the first header of that name, "" when there is none
FirstValue(r, n) ==
    LET hs == SelectSeq(r.headers, LAMBDA h : h.name = n)
    IN  IF hs = <<>> THEN "" ELSE hs[1].value

HasOpaqueByte(v) == \E i \in 1..Len(v) : SubSeq(v, i, i) = OpaqueByte

\* the inbound Host header, taken as empty when absent or not a string
InboundHost(r) ==
    IF HasOpaqueByte(FirstValue(r, "host")) THEN "" ELSE FirstValue(r, "host")

\* the host contains the dexter marker
HasDexterMarker(h) ==
    \E i \in 1..(Len(h) - 20) : SubSeq(h, i, i + 20) = "db-dexter.xylex.cloud"

OriginFor(h) ==
    IF HasDexterMarker(h)
    THEN "https://athena.dexter.xylex.cloud"
    ELSE "https://db-suitsbooks-nl.xylex.cloud"

\* "?" and the inbound query, when the query is not empty
QueryPart(r) == IF r.query.some /\ r.query.v # "" THEN "?" \o r.query.v ELSE ""

\* the inbound path without a leading /rest/v1
WithoutLeadingPrefix(path) ==
    IF Len(path) >= 8 /\ SubSeq(path, 1, 8) = "/rest/v1"
    THEN SubSeq(path, 9, Len(path))
    ELSE path

\* C8: the outbound path is the inbound path with one leading /rest/v1
\* removed, and the inbound path unchanged when it does not start with
\* /rest/v1; the inbound query follows a "?" when it is not empty.
C8_PathRewrite ==
    \A p \in DOMAIN pc :
        pc[p] = "sending" =>
            out[p].url = OriginFor(InboundHost(req[p]))
                            \o WithoutLeadingPrefix(req[p].path)
                            \o QueryPart(req[p])

\* C9: for every Host header (absent or not a string counting as empty) a
\* target URL is produced; its origin is the dexter origin exactly when the
\* host contains the dexter marker, the default origin otherwise; and
\* determine_target_url gives the same origin and path as proxy_request does.
C9_TargetResolution ==
    \A p \in DOMAIN pc :
        pc[p] = "sending" =>
            LET h == InboundHost(req[p])
            IN  /\ out[p].url = OriginFor(h) \o Path(req[p]) \o QueryPart(req[p])
                /\ determine_target_url(h, Path(req[p])) = OriginFor(h) \o Path(req[p])
                /\ determine_target_url(h, Path(req[p])) = TargetUrlRepl(h, Path(req[p]))

\* C9 witness: a Host header that holds the dexter marker but is not a string
\* was resolved to the default origin
C9_Witness ==
    \E p \in DOMAIN pc :
        /\ pc[p] = "sending"
        /\ FirstValue(req[p], "host") = "db-dexter.xylex.cloud" \o OpaqueByte
        /\ req[p].path = "/rest/v1/books"
        /\ out[p].url = "https://db-suitsbooks-nl.xylex.cloud/books?limit=10"

\* the bearer token of the request, "" when there is none
BearerToken(r) ==
    LET v == FirstValue(r, "authorization")
    IN  IF ~HasOpaqueByte(v) /\ Len(v) >= 7 /\ SubSeq(v, 1, 7) = "Bearer "
        THEN SubSeq(v, 8, Len(v))
        ELSE ""

\* C10: the outbound request carries every inbound header except Host, then
\* an apikey header holding the bearer token exactly when that token is not
\* empty, and the inbound body as it came.
C10_Credentials ==
    \A p \in DOMAIN pc :
        pc[p] = "sending" =>
            /\ out[p].headers =
                  SelectSeq(req[p].headers, LAMBDA h : h.name # "host")
                  \o (IF BearerToken(req[p]) # ""
                      THEN <<Hdr("apikey", BearerToken(req[p]))>>
                      ELSE <<>>)
            /\ out[p].body = req[p].body

\* C10 witness: a request with Authorization: Bearer abc, an apikey header of
\* its own and a body was sent on with all three and with apikey: abc added
C10_Witness ==
    \E p \in DOMAIN pc :
        /\ pc[p] = "sending"
        /\ req[p].body = "{\"n\":1}"
        /\ out[p].body = "{\"n\":1}"
        /\ out[p].headers = <<Hdr("authorization", "Bearer abc"), Hdr("apikey", "k"),
                              Hdr("x-client", "cli"), Hdr("apikey", "abc")>>

\* the number of headers of hs whose name is n
Count(hs, n) == Cardinality({i \in 1..Len(hs) : hs[i].name = n})

\* the step is slot p returning the backend's answer
Forwards(p) == pc[p] = "reading" /\ pc'[p] = "done"

\* the header lines the backend sent to slot p
SentLines(p) == {lines \in UpHeaderLines : UpHeaderMaps[lines] = upstream[p].headers}

\* the headers the middleware of main sets on every response
MiddlewareHeaders == {"server", "vary", "access-control-allow-origin"}

\* the four headers that are not to be relayed
HopHeaders == {"content-encoding", "content-length", "transfer-encoding", "connection"}

CountValue(hs, n, v) == Cardinality({i \in 1..Len(hs) : hs[i] = Hdr(n, v)})

\* every Content-Type the backend sent reaches the client as application/json
TypeOverridden(sent_map, client) ==
    Count(sent_map, "content-type") > 0 =>
        /\ Count(client, "content-type") = Count(sent_map, "content-type")
        /\ CountValue(client, "content-type", "application/json")
              = Count(client, "content-type")

\* the relayed header h reaches the client with the value the backend sent
ValueKept(sent_map, client, h) ==
    (h.name \notin HopHeaders /\ h.name # "content-type") =>
        CountValue(client, h.name, h.value) = CountValue(sent_map, h.name, h.value)

\* C12 (as claimed): when the backend's answer carries a Content-Type, in any
\* letter case and with any value, the client sees application/json, and
\* every other relayed header reaches the client with the backend's value.
C12_ContentTypeAsClaimed ==
    [][\A p \in DOMAIN pc : \A lines \in SentLines(p) :
          Forwards(p) =>
              LET client == resp'[p].headers
                  sent_map == UpHeaderMaps[lines]
              IN  /\ TypeOverridden(sent_map, client)
                  /\ \A i \in 1..Len(sent_map) :
                        ValueKept(sent_map, client, sent_map[i])]_vars

\* C12 (amended): as claimed, for every other relayed header but those the
\* middleware sets (Server, Vary, Access-Control-Allow-Origin); a Server
\* header the backend sent reaches the client as the one Server header the
\* middleware sets.
C12_ContentType ==
    [][\A p \in DOMAIN pc : \A lines \in SentLines(p) :
          Forwards(p) =>
              LET client == resp'[p].headers
                  sent_map == UpHeaderMaps[lines]
              IN  /\ TypeOverridden(sent_map, client)
                  /\ \A i \in 1..Len(sent_map) :
                        IF sent_map[i].name \in MiddlewareHeaders
                        THEN /\ Count(client, "server") = 1
                             /\ CountValue(client, "server", SERVER_ID) = 1
                        ELSE ValueKept(sent_map, client, sent_map[i])]_vars

\* C12 witness: an answer sent with Content-Type: text/plain was forwarded
\* with Content-Type: application/json
C12_Witness ==
    \E p \in DOMAIN pc :
        /\ pc[p] = "done"
        /\ sent[p] = 1
        /\ CountValue(upstream[p].headers, "content-type", "text/plain") = 1
        /\ CountValue(resp[p].headers, "content-type", "application/json") = 1
        /\ Count(resp[p].headers, "content-type") = 1
\* the methods the claim says are kept
MappedMethods == {"GET", "POST", "PUT", "DELETE", "PATCH"}

\* C13: the outbound method is the inbound one for GET, POST, PUT, DELETE and
\* PATCH and GET for every other inbound method; the mapping never fails (the
\* request is dispatched), and the cache key starts with the inbound method.
C13_MethodMapping ==
    \A p \in DOMAIN pc :
        pc[p] # "idle" =>
            /\ pc[p] = "sending"
            /\ sent[p] = 1
            /\ out[p].method =
                  (IF req[p].method \in MappedMethods THEN req[p].method ELSE "GET")
            /\ StartsWith(cachekey[p], req[p].method \o "-")

\* C13 witness: a PURGE request was dispatched as GET under a key that starts
\* with PURGE
C13_Witness ==
    \E p \in DOMAIN pc :
        /\ pc[p] = "sending"
        /\ req[p].method = "PURGE"
        /\ out[p].method = "GET"
        /\ StartsWith(cachekey[p], "PURGE-")
\* C15: every response that leaves the proxy (a cache hit, a forwarded answer,
\* the 500 of a failed dispatch, the ping) carries exactly one Server header,
\* whose value is the proxy's identifier, also when the backend sent Server
\* headers of its own.
C15_ServerHeader ==
    \A p \in DOMAIN pc :
        pc[p] = "done" =>
            /\ Count(resp[p].headers, "server") = 1
            /\ CountValue(resp[p].headers, "server", "XYLEX/0") = 1

\* C15 witness: an answer the backend sent with two Server headers was
\* forwarded with the one Server header of the proxy
C15_Witness ==
    \E p \in DOMAIN pc :
        /\ pc[p] = "done"
        /\ sent[p] = 1
        /\ Count(upstream[p].headers, "server") = 2
        /\ resp[p].status = upstream[p].status
        /\ Count(resp[p].headers, "server") = 1
        /\ CountValue(resp[p].headers, "server", "XYLEX/0") = 1
\* another slot than p is waiting for the backend's answer to a request with
\* the key k
OtherInFlight(p, k) ==
    \E q \in DOMAIN pc \ {p} : pc[q] \in {"sending", "reading"} /\ cachekey[q] = k

\* C16: requests are not coalesced: a request that finds no live entry makes
\* its outbound call also while another request with the same key is in
\* flight; a lookup returns nothing or a value some insert wrote in full;
\* every insert replaces the entry under the key by its own value, stamped
\* with the time of that insert, so the insert that happens last wins; and
\* the cache changes in no other step.
C16_Concurrent ==
    [][/\ \A p \in DOMAIN pc :
            /\ Starts(p) =>
                  LET k == cachekey'[p]
                  IN  /\ (~LiveEntry(k) /\ OtherInFlight(p, k)) => Dispatched(p)
                      /\ sent'[p] = 0 =>
                            /\ k \in DOMAIN cache
                            /\ resp'[p].body = cache[k].value
                            /\ cache[k].value \in {"{\"a\":1}", "null"}
            /\ Forwards(p) =>
                  /\ DOMAIN cache' = DOMAIN cache \cup {cachekey[p]}
                  /\ cache'[cachekey[p]] =
                        [value |-> StoredFor(resp'[p].body), inserted |-> now]
       /\ cache' # cache => \E p \in DOMAIN pc : Forwards(p)]_vars

\* C16 witness: a request that does not say no-cache is waiting for the
\* backend's answer while a live entry, stored by another request that has
\* made its own outbound call, lies under its key: both missed
C16_Witness ==
    \E p, q \in DOMAIN pc :
        /\ p # q
        /\ pc[p] = "done"
        /\ sent[p] = 1
        /\ pc[q] = "reading"
        /\ sent[q] = 1
        /\ cachekey[q] = cachekey[p]
        /\ ~SaysNoCache(req[q])
        /\ LiveEntry(cachekey[q])
        /\ cache[cachekey[q]] = [value |-> StoredFor(resp[p].body), inserted |-> now]
\* C17: a request is routed, then the cache is checked; on a hit it is
\* answered with no outbound call and the cache is left as it was; on a miss
\* it makes exactly one outbound call, the store happens once the backend's
\* answer is in and is done when the response is returned, and the generic
\* 500 is returned only when the call itself failed; and, the call coming
\* back in the end, every request reaches its one terminal state.
C17_Pipeline ==
    /\ [][\A p \in DOMAIN pc :
            /\ Starts(p) =>
                  \/ AnsweredFromCache(p, cachekey'[p])
                  \/ Dispatched(p) /\ resp'[p] = NoResp /\ upstream'[p] = NoUp
            /\ ~Starts(p) => sent'[p] = sent[p]
            /\ sent'[p] <= 1
            /\ (pc[p] = "sending" /\ pc'[p] # "sending") =>
                  /\ cache' = cache
                  /\ \/ pc'[p] = "reading" /\ upstream'[p] # NoUp /\ resp'[p] = NoResp
                     \/ /\ pc'[p] = "done"
                        /\ upstream'[p] = NoUp
                        /\ resp'[p].status = 500
                        /\ resp'[p].body = ""
            /\ (pc[p] = "reading" /\ pc'[p] # "reading") =>
                  /\ pc'[p] = "done"
                  /\ upstream[p] # NoUp
                  /\ cachekey[p] \in DOMAIN cache'
                  /\ cache'[cachekey[p]].inserted = now
                  /\ resp'[p].status = upstream[p].status
            /\ (pc[p] \notin {"sending", "reading"} /\ pc'[p] = "done") =>
                  (Starts(p) \/ UNCHANGED <<pc[p], resp[p], sent[p]>>)
            /\ (pc[p] = "idle" /\ ~Starts(p)) => pc'[p] = "idle"]_vars
    /\ \A p \in ConcProcs : (pc[p] \in {"sending", "reading"}) ~> (pc[p] = "done")

\* C17 witness: a request that missed has made its one outbound call, the
\* backend's answer is stored and the response is returned
C17_Witness ==
    \E p \in DOMAIN pc :
        /\ pc[p] = "done"
        /\ sent[p] = 1
        /\ out[p] # NoOut
        /\ upstream[p] # NoUp
        /\ resp[p].status = upstream[p].status
        /\ cachekey[p] \in DOMAIN cache
        /\ cache[cachekey[p]].inserted <= now
\* slot p holds the response of a request that stored the entry now under k
Populated(p, k) ==
    /\ pc[p] = "done"
    /\ sent[p] = 1
    /\ upstream[p] # NoUp
    /\ cachekey[p] = k
    /\ k \in DOMAIN cache
    /\ cache[k].value = StoredFor(resp[p].body)

\* the bodies of the backend that are JSON
JsonBodies == {"[1,2]", "{ \"a\": 1 }"}

\* C18: a response served from the cache has status 200, the stored value as
\* its body and none of the backend's response headers; so it equals, in
\* status and body, the response of the request that stored the entry only
\* when the backend answered 200 with a body that is JSON: an answer stored
\* from a 404 is replayed as 200.
C18_Replay ==
    [][\A q \in DOMAIN pc :
          (Starts(q) /\ sent'[q] = 0) =>
              LET k == cachekey'[q]
                  hit == resp'[q]
              IN  /\ hit.status = 200
                  /\ k \in DOMAIN cache
                  /\ hit.body = cache[k].value
                  /\ \A i \in 1..Len(hit.headers) :
                        \/ hit.headers[i] = Hdr("content-type", "application/json")
                        \/ hit.headers[i].name \in MiddlewareHeaders
                  /\ \A p \in DOMAIN pc :
                        Populated(p, k) =>
                            /\ \A i \in 1..Len(upstream[p].headers) :
                                  LET h == upstream[p].headers[i]
                                  IN  CountValue(hit.headers, h.name, h.value) = 0
                            /\ (hit.status = resp[p].status /\ hit.body = resp[p].body) =>
                                  (upstream[p].status = 200 /\ resp[p].body \in JsonBodies)
                            /\ upstream[p].status # 200 =>
                                  (resp[p].status = upstream[p].status /\ hit.status = 200)]_vars

\* C18 witness: one request was answered 404 with the body [1,2], which it
\* stored; another was served that value from the cache as 200
C18_Witness ==
    \E p, q \in DOMAIN pc :
        /\ pc[p] = "done"
        /\ sent[p] = 1
        /\ upstream[p].status = 404
        /\ resp[p].status = 404
        /\ resp[p].body = "[1,2]"
        /\ pc[q] = "done"
        /\ sent[q] = 0
        /\ cachekey[q] = cachekey[p]
        /\ resp[q].status = 200
        /\ resp[q].body = "[1,2]"
\* the step is slot p taking up the request req'[p], one of reqs
StartsOn(p, reqs) ==
    /\ pc[p] \in {"idle", "done"}
    /\ now' = now
    /\ req'[p] \in reqs
    /\ Start(p, req'[p])

\* the Authorization header of a request, if any
Authorization(r) == HeaderGet(r.headers, "authorization")

\* two requests with the same method, URL and Authorization header
SameCall(r1, r2) ==
    /\ r1.method = r2.method
    /\ r1.path = r2.path
    /\ r1.query = r2.query
    /\ HeaderGet(r1.headers, "host") = HeaderGet(r2.headers, "host")
    /\ Authorization(r1) = Authorization(r2)

\* C19: the cache is read and written for every method and the body is not
\* part of the key: the answer to a POST, PUT, PATCH or DELETE is stored, and
\* the same call made again less than 60 seconds after, without no-cache,
\* with whatever body, is answered from the cache and makes no outbound call.
C19_MethodsCached ==
    [][\A q \in DOMAIN pc :
          /\ Forwards(q) =>
                /\ cachekey[q] \in DOMAIN cache'
                /\ cache'[cachekey[q]] =
                      [value |-> StoredFor(resp'[q].body), inserted |-> now]
          /\ StartsOn(q, StateChangingRequests) =>
                \A p \in DOMAIN pc :
                    ( /\ Populated(p, cachekey[p])
                      /\ SameCall(req[p], req'[q])
                      /\ ~SaysNoCache(req'[q])
                      /\ now - cache[cachekey[p]].inserted < 60 ) =>
                        /\ cachekey'[q] = cachekey[p]
                        /\ pc'[q] = "done"
                        /\ sent'[q] = 0
                        /\ out'[q] = NoOut
                        /\ resp'[q].status = 200
                        /\ resp'[q].body = cache[cachekey[p]].value]_vars

\* C19 witness: a DELETE was sent to the backend and its answer stored; the
\* same DELETE with another body, 30 seconds later, was answered from the
\* cache
C19_Witness ==
    \E p, q \in DOMAIN pc :
        /\ pc[p] = "done"
        /\ sent[p] = 1
        /\ req[p].method = "DELETE"
        /\ pc[q] = "done"
        /\ sent[q] = 0
        /\ out[q] = NoOut
        /\ req[q].method = "DELETE"
        /\ req[q].body # req[p].body
        /\ cachekey[q] = cachekey[p]
        /\ cachekey[p] \in DOMAIN cache
        /\ now - cache[cachekey[p]].inserted = 30
        /\ resp[q].body = cache[cachekey[p]].value
\* C20: a response stored by a request with the Authorization value A is
\* served only to requests whose Authorization value is A too: a request is
\* never answered from an entry that a request with the same method and URL
\* but another Authorization header (another scheme, or none) has stored.
C20_CredentialIsolation ==
    [][\A q \in DOMAIN pc :
          (StartsOn(q, IsolationRequests) /\ sent'[q] = 0) =>
              \A p \in DOMAIN pc :
                  Populated(p, cachekey'[q]) =>
                      Authorization(req[p]) = Authorization(req'[q])]_vars
====
